---- MODULE Spec2Model ----
(***************************************************************************)
(* HSTFocusModel.py: the calendar / Modified Julian Date conversion pair   *)
(* (_mjd_to_year_date_time, _date_time_to_mjd) and the interval aggregator *)
(* mean_focus with its fetch plan and its HTTPResponseError policy.        *)
(*                                                                         *)
(* Numbers.  A Python float holding a day count is modelled exactly, as a  *)
(* pair <<whole, ticks>> standing for whole + ticks/TicksPerDay with       *)
(* 0 <= ticks < TicksPerDay.  TicksPerDay is the least common denominator  *)
(* of every fraction of a day the source forms from its literals (1/2,     *)
(* 1/4, 1/10000, 1/24, 1/1440, 1/86400), so every sum the source computes  *)
(* from whole-second or string inputs is a whole number of ticks.  The     *)
(* representation error of a float (an MJD read from a FITS header is the  *)
(* double nearest to the instant, a few 1e-12 day off) is modelled by      *)
(* letting the inputs sit up to TickSlop ticks either side of a whole      *)
(* second.  floor() of a quotient plus a decimal literal is computed       *)
(* exactly, comparing fractions by their continued fractions so that no    *)
(* product leaves the 32-bit integers of the model checker.                *)
(***************************************************************************)
EXTENDS Integers, Sequences, FiniteSets, TLC

VARIABLES
    \* ---- mean_focus: one call, from its arguments to its return or raise
    pc,               \* "idle" | "post" | "get" | "done": where the call stands
    expstart,         \* normalised start of the exposure (MJD), <<whole, ticks>>
    expend,           \* normalised end of the exposure (MJD)
    args,             \* [form, not_found_value, with_var, numtype] of the call
    intervals,        \* the fetch plan: sequence of <<year, date, start, stop>>
    requests,         \* the get_model_data calls issued so far, in order
    responses,        \* how each finished get_model_data call ended, in order
    txt_focus,        \* the concatenated table rows (header rows dropped)
    result,           \* what the call returned or raised
    \* ---- the conversion pair applied to drawn inputs
    cal_in,           \* a calendar instant <<year, month, day, hours, minutes, seconds>>
    cal_mjd,          \* _date_time_to_mjd(cal_in), or <<>> before it ran
    cal_back,         \* _mjd_to_year_date_time(cal_mjd), or <<>> before it ran
    m1, m2,           \* two MJD values, m1 < m2
    c1, c2            \* their calendar instants, or <<>> before conversion

vars == <<pc, expstart, expend, args, intervals, requests, responses, txt_focus,
          result, cal_in, cal_mjd, cal_back, m1, m2, c1, c2>>

mfvars == <<pc, expstart, expend, args, intervals, requests, responses, txt_focus,
            result>>
rtvars == <<cal_in, cal_mjd, cal_back>>
monovars == <<m1, m2, c1, c2>>

\* no call of mean_focus is under way; no conversion input is drawn
NoCall ==
    /\ pc = "idle" /\ expstart = <<>> /\ expend = <<>> /\ args = <<>>
    /\ intervals = <<>> /\ requests = <<>> /\ responses = <<>>
    /\ txt_focus = <<>> /\ result = <<>>

NoRound == cal_in = <<>> /\ cal_mjd = <<>> /\ cal_back = <<>>

NoMono == m1 = <<>> /\ m2 = <<>> /\ c1 = <<>> /\ c2 = <<>>

-----------------------------------------------------------------------------
(* Exact day-count arithmetic                                              *)

\* ticks in a day: lcm(10000, 86400) = 2^7 * 3^3 * 5^4, 25 ticks to the second
TicksPerDay == 86400 * 25

\* a float input may sit this many ticks either side of a whole second
TickSlop == 1

\* days either side of each anchor day from which inputs are drawn
DaySpread == 1

Norm(whole, ticks) == <<whole + (ticks \div TicksPerDay), ticks % TicksPerDay>>

\* whole + num/den of a day; den divides TicksPerDay
Real(whole, num, den) ==
    Norm(whole + (num \div den), (num % den) * (TicksPerDay \div den))

RAdd(x, y) == Norm(x[1] + y[1], x[2] + y[2])

RSub(x, y) == Norm(x[1] - y[1], x[2] - y[2])

RLess(x, y) == x[1] < y[1] \/ (x[1] = y[1] /\ x[2] < y[2])

RLeq(x, y) == x = y \/ RLess(x, y)

\* p/q >= c/d for p, c >= 0 and q, d > 0, by the continued fractions of both
RECURSIVE FracGE(_, _, _, _)
FracGE(p, q, c, d) ==
    LET ip == p \div q
        ic == c \div d
        rp == p % q
        rc == c % d
    IN  IF ip # ic THEN ip > ic
        ELSE IF rc = 0 THEN TRUE
        ELSE IF rp = 0 THEN FALSE
        ELSE FracGE(d, rc, q, rp)

\* numpy floor(p/q + fn/fd) for q, fd > 0 and fn >= 0
floor(p, q, fn, fd) ==
    (p \div q) + (fn \div fd)
    + (IF FracGE(p % q, q, fd - (fn % fd), fd) THEN 1 ELSE 0)

-----------------------------------------------------------------------------
(* str.format with {:02d}, rsplit, and the strings the module passes on   *)

Digits == <<"0", "1", "2", "3", "4", "5", "6", "7", "8", "9">>

RECURSIVE Decimal(_)
Decimal(n) == IF n < 10 THEN <<Digits[n + 1]>>
              ELSE Decimal(n \div 10) \o <<Digits[(n % 10) + 1]>>

\* '{:02d}'.format(n): at least two digits, zero padded, the sign first
Fmt02(n) ==
    IF n < 0 THEN <<"-">> \o Decimal(-n)
    ELSE IF n < 10 THEN <<"0">> \o Decimal(n)
    ELSE Decimal(n)

\* s.rsplit(sep, 1)[0]: s up to its last sep, or s itself when it has none
RSplitHead(s, sep) ==
    LET at == {i \in 1..Len(s) : s[i] = sep}
    IN  IF at = {} THEN s
        ELSE SubSeq(s, 1, (CHOOSE i \in at : \A j \in at : j <= i) - 1)

-----------------------------------------------------------------------------
(* _mjd_to_year_date_time                                                  *)
(*                                                                         *)
(* Each intermediate value of the source is a parameter of the operator    *)
(* that continues from it, named as in the source.                          *)

\* Lines 278-285 without the step from the March-based to the civil year.
CivilYearMarchBased(b, month) ==
    IF b + 1899 < 1 THEN b + 1899 - 1 ELSE b + 1899

\* Lines 278-285: the decomposition counts years from March, so January
\* and February belong to the next civil year; there is no year 0.
CivilYear(b, month) ==
    IF 2 * month < 5                                             \* month < 2.5
    THEN (IF b + 1900 < 1 THEN b + 1900 - 1 ELSE b + 1900)
    ELSE (IF b + 1899 < 1 THEN b + 1899 - 1 ELSE b + 1899)

\* Lines 275-285, from g: month, day and year.
FromG(day_frac, b, ce, g) ==
    << CivilYear(b, IF 2 * g > 27 THEN g - 13 ELSE g - 1),       \* g > 13.5
       IF 2 * g > 27 THEN g - 13 ELSE g - 1,
       ce - floor(306001 * g, 10000, 0, 1) + (day_frac \div TicksPerDay) >>

\* Line 275: g = floor(ce / 30.6001)
FromCe(day_frac, b, ce) == FromG(day_frac, b, ce, floor(10000 * ce, 306001, 0, 1))

\* Line 274: ce = day_int - floor((_days_per_year * b) + .750001) + 416
FromB(day_int, day_frac, b) ==
    FromCe(day_frac, b, day_int - floor(1461 * b, 4, 750001, 1000000) + 416)

\* Line 273: b = floor((day_int / _days_per_year) + .802601)
YearMonthDay(day_int, day_frac) ==
    FromB(day_int, day_frac, floor(4 * day_int, 1461, 802601, 1000000))

\* Line 270: day_int += 1 + leapskips - floor(leapskips / 4.0)
AddLeapSkips(day_int, leapskips) == day_int + 1 + leapskips - (leapskips \div 4)

\* Lines 267-270: a day after _gregorian_change_date gets the skipped leap days
GregorianDayInt(day_int) ==
    IF day_int > -115860
    THEN AddLeapSkips(day_int,
                      floor(100 * day_int, 3652425, 1499835726, 100000000))
    ELSE day_int

\* Line 289, from the ticks left of the minute
FromMinute(hour, minute, rem_m) ==
    <<hour, minute, (rem_m * 24 * 3600) \div TicksPerDay>>

\* Line 288, from the ticks left of the hour
FromHour(hour, rem_h, minute) ==
    FromMinute(hour, minute, rem_h - minute * (TicksPerDay \div (24 * 60)))

\* Lines 287-289: int() of the hours, minutes and seconds in day_frac
HourMinuteSecond(day_frac, hour) ==
    FromHour(hour, day_frac - hour * (TicksPerDay \div 24),
             ((day_frac - hour * (TicksPerDay \div 24)) * 24 * 60) \div TicksPerDay)

\* Lines 266-289
FromDay(day_int, day_frac) ==
    YearMonthDay(GregorianDayInt(day_int), day_frac)
    \o HourMinuteSecond(day_frac, (24 * day_frac) \div TicksPerDay)

\* Lines 259-264: floor, fraction (in ticks), and the carry of a fraction of 1
FromDays1900(days1900) ==
    IF days1900[2] = TicksPerDay
    THEN FromDay(days1900[1] + 1, 0)
    ELSE FromDay(days1900[1], days1900[2])

\* Lines 249-289: <<year, month, day, hour, minute, second>>, before they
\* are formatted; days1900 = mjd + _mjd_to_dublin + 0.5
MjdFields(mjd) ==
    FromDays1900(RAdd(RAdd(mjd, Real(-15020, 1, 2)), Real(0, 1, 2)))

\* Lines 291-292: (year, 'MM/DD', 'HH:MM:SS')
Formatted(f) ==
    << f[1],
       Fmt02(f[2]) \o <<"/">> \o Fmt02(f[3]),
       Fmt02(f[4]) \o <<":">> \o Fmt02(f[5]) \o <<":">> \o Fmt02(f[6]) >>

mjd_to_year_date_time(mjd) == Formatted(MjdFields(mjd))

-----------------------------------------------------------------------------
(* _date_time_to_mjd                                                       *)

\* date(year, month, day) < date(1582, 10, 14)
BeforeLastGregorianDate(year, month, day) ==
    \/ year < 1582
    \/ year = 1582 /\ month < 10
    \/ year = 1582 /\ month = 10 /\ day < 14

\* Lines 310-314: the leap correction b
LeapCorrection(year, month, day, n_centuries) ==
    IF BeforeLastGregorianDate(year, month, day) THEN 0
    ELSE 2 - n_centuries + (n_centuries \div 4)

\* Lines 317-320: c, the days of y years of 365.25 days
YearDays(y) ==
    IF y < 0
    THEN RSub(RSub(Real(0, 1461 * y, 4), Real(0, 3, 4)), <<694025, 0>>)
    ELSE RSub(Real(0, 1461 * y, 4), <<694025, 0>>)

\* Lines 310-328, from the March-based month m and year y
FromMarchYear(year, month, day, hours, minutes, seconds, m, y) ==
    RAdd(RAdd(RSub(RAdd(RAdd(RAdd(<<LeapCorrection(year, month, day, y \div 100), 0>>,
                                  YearDays(y)),
                             Real(0, 306001 * (m + 1), 10000)),   \* 30.6001 * (m + 1)
                        <<day, 0>>),
                   Real(0, 1, 2)),
              RAdd(RAdd(Real(0, hours, 24), Real(0, minutes, 1440)),
                   Real(0, seconds, 86400))),
         Real(15019, 1, 2))                                       \* 15019.5

date_time_to_mjd(year, month, day, hours, minutes, seconds) ==
    FromMarchYear(year, month, day, hours, minutes, seconds,
                  IF month < 3 THEN month + 12 ELSE month,
                  IF month < 3
                  THEN (IF year < 0 THEN year + 1 ELSE year) - 1
                  ELSE (IF year < 0 THEN year + 1 ELSE year))

-----------------------------------------------------------------------------
(* mean_focus: arguments, fetch plan, get_model_data, error policy        *)

OK == 200

NOT_FOUND == 404

\* statuses a response may carry: httplib.OK, NOT_FOUND, and a server error
Statuses == {OK, NOT_FOUND, 500}

\* Python values mean_focus may return, each a tagged tuple: None, an
\* integer, nan, or a number scipy computed over a span.
None == <<"None">>

Number(n) == <<"int", n>>

NaN == <<"nan">>

\* re.split(':|-|/| ', s)
RECURSIVE ReSplit(_)
ReSplit(s) ==
    LET at == {i \in 1..Len(s) : s[i] \in {":", "-", "/", " "}}
    IN  IF at = {} THEN <<s>>
        ELSE LET i == CHOOSE k \in at : \A j \in at : k <= j
             IN  <<SubSeq(s, 1, i - 1)>> \o ReSplit(SubSeq(s, i + 1, Len(s)))

\* int(num) for a string of decimal digits
RECURSIVE int(_)
int(num) ==
    IF Len(num) = 0 THEN 0
    ELSE 10 * int(SubSeq(num, 1, Len(num) - 1))
         + ((CHOOSE k \in 1..10 : Digits[k] = num[Len(num)]) - 1)

\* Lines 147-154: a time string becomes an MJD; a float raises TypeError in
\* re.split and is kept as it is.
FromNums(nums) ==
    date_time_to_mjd(int(nums[1]), int(nums[2]), int(nums[3]),
                     int(nums[4]), int(nums[5]), int(nums[6]))

ToMjd(form, exposure) ==
    IF form = "str" THEN FromNums(ReSplit(exposure)) ELSE exposure

\* 10 / (24 * 60) as Python 2 divides integers without the __future__ import
ten_mins_floor_division == Real(10 \div (24 * 60), 0, 1)

\* Line 157, under from __future__ import division (line 20)
ten_mins == Real(0, 10, 24 * 60)

\* Lines 166-170 with the date test on the wrong pair of strings.
IntervalsByTime(start_yr, start_date, start_time, stop_yr, stop_date, stop_time) ==
    IF start_time # stop_time
    THEN << <<start_yr, start_date, start_time, <<"2", "3", ":", "5", "9">> >>,
            <<stop_yr, stop_date, <<"0", "0", ":", "0", "0">>, stop_time>> >>
    ELSE << <<start_yr, start_date, start_time, stop_time>> >>

\* Lines 166-170 with the two intervals listed end day first.
IntervalsEndFirst(start_yr, start_date, start_time, stop_yr, stop_date, stop_time) ==
    IF start_date # stop_date
    THEN << <<stop_yr, stop_date, <<"0", "0", ":", "0", "0">>, stop_time>>,
            <<start_yr, start_date, start_time, <<"2", "3", ":", "5", "9">> >> >>
    ELSE << <<start_yr, start_date, start_time, stop_time>> >>

\* Lines 166-170: one request, or two when the date strings differ.
Intervals(start_yr, start_date, start_time, stop_yr, stop_date, stop_time) ==
    IF start_date # stop_date
    THEN << <<start_yr, start_date, start_time, <<"2", "3", ":", "5", "9">> >>,
            <<stop_yr, stop_date, <<"0", "0", ":", "0", "0">>, stop_time>> >>
    ELSE << <<start_yr, start_date, start_time, stop_time>> >>

\* Lines 160-170, from the two (year, date, time) triples
PlanFrom(s, e) ==
    Intervals(s[1], s[2], RSplitHead(s[3], ":"), e[1], e[2], RSplitHead(e[3], ":"))

\* Lines 157-170: pad, split into year, date and time, chop the seconds off,
\* and plan the requests.
FetchPlan(start, end) ==
    PlanFrom(mjd_to_year_date_time(RSub(start, ten_mins)),
             mjd_to_year_date_time(RAdd(end, ten_mins)))

\* The table the service generates for a request: a line of column names,
\* then one row for each sample of the requested time range.  A row is its
\* time stamp <<Year, Month, Day, hour, minute>>.  The service has a sample
\* at the first and at the last minute of the range (none when the range is
\* empty).
SamplesBetween(first, last) ==
    IF 60 * first[4] + first[5] < 60 * last[4] + last[5] THEN <<first, last>>
    ELSE IF 60 * first[4] + first[5] = 60 * last[4] + last[5] THEN <<first>>
    ELSE <<>>

Stamp(year, md, hm) == <<year, int(md[1]), int(md[2]), int(hm[1]), int(hm[2])>>

ServiceTable(year, date, start, stop) ==
    <<"JulianDate Month Day Year Time Model">>
    \o SamplesBetween(Stamp(year, ReSplit(date), ReSplit(start)),
                      Stamp(year, ReSplit(date), ReSplit(stop)))

\* Lines 195-201 with the test of not_found_value inverted.
ExceptHandlerIsNone(status, not_found_value) ==
    IF status = NOT_FOUND /\ not_found_value = None
    THEN [kind |-> "return", mean_foc |-> not_found_value,
          var_foc |-> not_found_value]
    ELSE [kind |-> "raise", exc |-> "HTTPResponseError", status |-> status]

\* Lines 195-201: the except clause, for an HTTPResponseError of this status.
ExceptHandler(status, not_found_value) ==
    IF status = NOT_FOUND \/ not_found_value # None
    THEN [kind |-> "return", mean_foc |-> not_found_value,
          var_foc |-> not_found_value]
    ELSE [kind |-> "raise", exc |-> "HTTPResponseError", status |-> status]

\* Lines 187-193: the integral mean over [start, end] and the variance; the
\* quotient by (expend - expstart).  For a zero span a Python float raises
\* ZeroDivisionError and a numpy.float64 yields nan: zerodiv names which.
Integrate(start, end, zerodiv) ==
    IF RSub(end, start) = <<0, 0>>
    THEN IF zerodiv = "nan"
         THEN [kind |-> "return", mean_foc |-> NaN, var_foc |-> NaN]
         ELSE [kind |-> "raise", exc |-> "ZeroDivisionError", status |-> 0]
    ELSE [kind |-> "return",
          mean_foc |-> <<"spline.integral / (expend - expstart)", start, end>>,
          var_foc |-> <<"trapz(spline ** 2) / (expend - expstart) - mean_foc ** 2",
                        start, end>>]

\* Lines 203-206: the pair when with_var, the mean alone otherwise (value is
\* the sequence of the numbers returned: two, or one).
Return(outcome, with_var) ==
    IF outcome.kind = "raise" THEN outcome
    ELSE [kind |-> "return",
          value |-> IF with_var THEN <<outcome.mean_foc, outcome.var_foc>>
                    ELSE <<outcome.mean_foc>>]

\* ---- the exposures mean_focus is called with

\* from 1 March 2010 (MJD 55256); a year later is 1 March 2011
SpanStartDays == 55256..(55256 + DaySpread)

\* the end day is the start day, the next day, or the same date a year on
SpanDayOffsets == {0, 1, 365}

\* seconds of the day: 00:00, 00:05, 12:00, 13:00:15, 23:55
SpanSeconds == {0, 300, 43200, 46815, 86100}

SpanTimes(d) ==
    {Norm(d, s * (TicksPerDay \div 86400) + e) :
        s \in SpanSeconds, e \in (-TickSlop)..TickSlop}

MjdExposures ==
    {[form |-> "mjd", start |-> a, end |-> b] :
        a \in UNION {SpanTimes(d) : d \in SpanStartDays},
        b \in UNION {SpanTimes(d + k) : d \in SpanStartDays, k \in SpanDayOffsets}}

\* 'YYYY-MM-DD HH:MM:SS'
TimeString(c) ==
    Decimal(c[1]) \o <<"-">> \o Fmt02(c[2]) \o <<"-">> \o Fmt02(c[3]) \o <<" ">>
    \o Fmt02(c[4]) \o <<":">> \o Fmt02(c[5]) \o <<":">> \o Fmt02(c[6])

StrInstants == {<<2010, 3, 1, 12, 0, 0>>, <<2010, 3, 1, 12, 30, 15>>,
                <<2010, 3, 1 + DaySpread, 0, 5, 0>>}

StrExposures ==
    {[form |-> "str", start |-> TimeString(a), end |-> TimeString(b)] :
        a \in StrInstants, b \in StrInstants}

Exposures ==
    {x \in MjdExposures \cup StrExposures :
        RLeq(ToMjd(x.form, x.start), ToMjd(x.form, x.end))}

NotFoundValues == {None, Number(-1)}

\* ---- the call, step by step between its blocking HTTP exchanges

Init ==
    /\ NoCall
    /\ NoRound
    /\ NoMono

\* mean_focus is called: lines 147-173, and the first get_model_data sends
\* its POST (lines 77-87).
MeanFocus ==
    /\ pc = "idle"
    /\ \E x \in Exposures, nfv \in NotFoundValues, wv \in BOOLEAN :
         \E start \in {ToMjd(x.form, x.start)}, end \in {ToMjd(x.form, x.end)} :
           \E plan \in {FetchPlan(start, end)} :
             /\ expstart' = start
             /\ expend' = end
             /\ args' = [form |-> x.form, not_found_value |-> nfv, with_var |-> wv]
             /\ intervals' = plan
             /\ requests' = <<plan[1]>>
    /\ responses' = <<>>
    /\ txt_focus' = <<>>
    /\ result' = <<>>
    /\ pc' = "post"
    /\ UNCHANGED <<rtvars, monovars>>

\* The POST is answered (lines 88-91): the GET of the table follows (lines
\* 94-105), or HTTPResponseError reaches the except clause of mean_focus.
PostResponse ==
    /\ pc = "post"
    /\ \E status \in Statuses :
         IF status = OK
         THEN /\ pc' = "get"
              /\ UNCHANGED <<responses, result>>
         ELSE /\ pc' = "done"
              /\ responses' = Append(responses,
                     [kind |-> "raise", url |-> "_request_url", status |-> status])
              /\ result' = Return(ExceptHandler(status, args.not_found_value),
                                  args.with_var)
    /\ UNCHANGED <<expstart, expend, args, intervals, requests, txt_focus,
                   rtvars, monovars>>

\* The GET is answered (lines 106-110, 123): HTTPResponseError, or the table
\* comes back, mean_focus drops its first line and appends the rest (lines
\* 178-179), and then either calls get_model_data for the next interval or
\* integrates and returns (lines 181-206).
GetResponse ==
    /\ pc = "get"
    /\ \E status \in Statuses, zerodiv \in {"ZeroDivisionError", "nan"} :
         \E i \in {Len(requests)} :
           \E txt_interval \in {ServiceTable(requests[i][1], requests[i][2],
                                            requests[i][3], requests[i][4])} :
             IF status # OK
             THEN /\ pc' = "done"
                  /\ responses' = Append(responses,
                         [kind |-> "raise", url |-> "txt_table_url", status |-> status])
                  /\ result' = Return(ExceptHandler(status, args.not_found_value),
                                      args.with_var)
                  /\ UNCHANGED <<requests, txt_focus>>
             ELSE /\ responses' = Append(responses,
                         [kind |-> "return", txt |-> txt_interval])
                  /\ txt_focus' = txt_focus \o Tail(txt_interval)
                  /\ IF i < Len(intervals)
                     THEN /\ requests' = Append(requests, intervals[i + 1])
                          /\ pc' = "post"
                          /\ UNCHANGED result
                     ELSE /\ pc' = "done"
                          /\ result' = Return(Integrate(expstart, expend, zerodiv),
                                              args.with_var)
                          /\ UNCHANGED requests
    /\ UNCHANGED <<expstart, expend, args, intervals, rtvars, monovars>>

Next == MeanFocus \/ PostResponse \/ GetResponse

Spec == Init /\ [][Next]_vars

-----------------------------------------------------------------------------
(* The conversion pair on drawn inputs                                     *)

\* days (MJD) around which the inputs of _mjd_to_year_date_time are drawn:
\* 1 Jan of year -1 and of year 1, the day before the first Gregorian day,
\* 31 Dec 1899 (the Dublin epoch), 29 Feb 2000, 31 Dec 2009
MonoAnchors == {-678943, -678577, -100841, 15019, 51603, 55196}

MonoDays == UNION {(a - DaySpread)..(a + DaySpread) : a \in MonoAnchors}

\* seconds of the day: midnight, noon, the last second
MonoSeconds == {0, 43200, 86399}

MonoInstants ==
    {Norm(d, s * (TicksPerDay \div 86400) + e) :
        d \in MonoDays, s \in MonoSeconds, e \in (-TickSlop)..TickSlop}

\* calendar dates given to _date_time_to_mjd, on either side of 1582
CalAnchors == {<<1, 1, 2>>, <<1200, 5, 5>>, <<1582, 10, 3>>, <<1582, 10, 15>>,
               <<2000, 2, 27>>, <<2010, 6, 15>>, <<2012, 1, 1>>, <<2012, 3, 1>>}

CalInstants ==
    {<<a[1], a[2], a[3] + k, h, mi, s>> :
        a \in CalAnchors, k \in 0..DaySpread,
        h \in {0, 12, 23}, mi \in {0, 59}, s \in {0, 59}}

InitRound ==
    /\ NoCall /\ NoMono
    /\ cal_in \in CalInstants
    /\ cal_mjd = <<>>
    /\ cal_back = <<>>

DateTimeToMjd ==
    /\ cal_in # <<>> /\ cal_mjd = <<>>
    /\ cal_mjd' = date_time_to_mjd(cal_in[1], cal_in[2], cal_in[3],
                                   cal_in[4], cal_in[5], cal_in[6])
    /\ UNCHANGED <<cal_in, cal_back, mfvars, monovars>>

MjdToYearDateTime ==
    /\ cal_mjd # <<>> /\ cal_back = <<>>
    /\ cal_back' = mjd_to_year_date_time(cal_mjd)
    /\ UNCHANGED <<cal_in, cal_mjd, mfvars, monovars>>

NextRound == DateTimeToMjd \/ MjdToYearDateTime

SpecRound == InitRound /\ [][NextRound]_vars

InitMono ==
    /\ NoCall /\ NoRound
    /\ m1 \in MonoInstants
    /\ m2 \in MonoInstants
    /\ RLess(m1, m2)
    /\ c1 = <<>>
    /\ c2 = <<>>

MjdToYearDateTimePair ==
    /\ m1 # <<>> /\ c1 = <<>>
    /\ c1' = mjd_to_year_date_time(m1)
    /\ c2' = mjd_to_year_date_time(m2)
    /\ UNCHANGED <<m1, m2, mfvars, rtvars>>

NextMono == MjdToYearDateTimePair

SpecMono == InitMono /\ [][NextMono]_vars

-----------------------------------------------------------------------------
(* Properties                                                              *)

\* a <= b in lexicographic order, for integer tuples of one length
RECURSIVE LexLeq(_, _)
LexLeq(a, b) ==
    IF Len(a) = 0 THEN TRUE
    ELSE IF a[1] # b[1] THEN a[1] < b[1]
    ELSE LexLeq(Tail(a), Tail(b))

LexLess(a, b) == a # b /\ LexLeq(a, b)

\* the integers of a string of numbers separated by : - / or space
Ints(str) == LET parts == ReSplit(str) IN [i \in 1..Len(parts) |-> int(parts[i])]

\* The proleptic Gregorian calendar as the reference: the MJD of the civil
\* day (year, month, day), by the count of days in 400-year eras.
GregorianMjd(year, month, day) ==
    LET y == IF month <= 2 THEN year - 1 ELSE year
        era == y \div 400
        yoe == y - era * 400
        mp == IF month > 2 THEN month - 3 ELSE month + 9
        doy == ((153 * mp + 2) \div 5) + day - 1
        doe == yoe * 365 + (yoe \div 4) - (yoe \div 100) + doy
    IN  era * 146097 + doe - 719468 + 40587

\* the instant (MJD) a request names by its year, date 'MM/DD' and time 'HH:MM'
RequestedInstant(year, date, time) ==
    LET md == Ints(date)
        hm == Ints(time)
    IN  Real(GregorianMjd(year, md[1], md[2]), 60 * hm[1] + hm[2], 24 * 60)

Called == pc # "idle"

Raised(status) ==
    \E i \in 1..Len(responses) :
        responses[i].kind = "raise" /\ responses[i].status = status

AllReturned ==
    /\ Len(responses) = Len(intervals)
    /\ \A i \in 1..Len(responses) : responses[i].kind = "return"

\* C1: a fetch failure whose status is not "not found" always leaves
\* mean_focus as a raised failure, whatever not_found_value is.
C1_OtherFailurePropagates ==
    (pc = "done" /\ \E st \in Statuses \ {OK, NOT_FOUND} : Raised(st))
        => result.kind = "raise"

\* C2: a "not found" failure with not_found_value left at None leaves
\* mean_focus as a raised HTTPResponseError; no value is returned.
C2_NotFoundWithoutValueRaises ==
    (pc = "done" /\ Raised(NOT_FOUND) /\ args.not_found_value = None)
        => (result.kind = "raise" /\ result.exc = "HTTPResponseError")

\* C3: when one of the fetches fails with "not found" and not_found_value is
\* provided, mean_focus returns not_found_value, as mean and as variance when
\* the variance is asked for, and nothing computed from an earlier table.
C3_NotFoundSubstituted ==
    (pc = "done" /\ Raised(NOT_FOUND) /\ args.not_found_value # None)
        => /\ result.kind = "return"
           /\ result.value = IF args.with_var
                             THEN <<args.not_found_value, args.not_found_value>>
                             ELSE <<args.not_found_value>>

\* the second of two fetches reported "not found" after the first returned
\* its table, and (-1, -1) came back
C3_Witness ==
    /\ pc = "done"
    /\ Len(responses) = 2
    /\ responses[1].kind = "return"
    /\ responses[2].kind = "raise" /\ responses[2].status = NOT_FOUND
    /\ Len(txt_focus) > 0
    /\ args.with_var
    /\ result.kind = "return"
    /\ result.value = <<Number(-1), Number(-1)>>

\* seconds of the day of a time string 'HH:MM:SS'
SecondsOf(time) == LET t == Ints(time) IN 3600 * t[1] + 60 * t[2] + t[3]

\* C4: converting a calendar instant to MJD and back yields the same year,
\* month and day, and a time of day within one second of the original.
C4_RoundTrip ==
    cal_back # <<>>
        => /\ cal_back[1] = cal_in[1]
           /\ cal_back[2] = Fmt02(cal_in[2]) \o <<"/">> \o Fmt02(cal_in[3])
           /\ LET was == 3600 * cal_in[4] + 60 * cal_in[5] + cal_in[6]
                  is == SecondsOf(cal_back[3])
              IN  is - was \in -1..1

Rows(i) == Tail(responses[i].txt)

StrictlyIncreasing(rows) ==
    \A i \in 1..Len(rows), j \in 1..Len(rows) : i < j => LexLess(rows[i], rows[j])

C7_DegenerateSpan ==
    (pc = "done" /\ expstart = expend /\ AllReturned)
        => (result.kind = "return" /\ result.value[1] # NaN)

\* the calendar instant as integers <<year, month, day, hour, minute, second>>
CalKey(c) == <<c[1]>> \o Ints(c[2]) \o Ints(c[3])

\* C8: for m1 < m2 the calendar instant of m1 is never later than that of
\* m2 in the order of (year, month, day, hour, minute, second).
C8_Monotone ==
    c1 # <<>> => (RLess(m1, m2) /\ LexLeq(CalKey(c1), CalKey(c2)))

\* the last tick of 4 Oct 1582 and the first of 15 Oct 1582 were converted
C8_Witness ==
    /\ c1 # <<>>
    /\ m2 = RAdd(m1, <<0, 1>>)
    /\ CalKey(c1) = <<1582, 10, 4, 23, 59, 59>>
    /\ CalKey(c2) = <<1582, 10, 15, 0, 0, 0>>

\* C9: one fetch, for [start time, end time], exactly when the padded ends
\* fall on one calendar date; otherwise two, the first to 23:59 of the start
\* date and the second from 00:00 of the end date; never more than two.
C9_FetchPlan ==
    Called =>
        LET ps == RSub(expstart, ten_mins)
            pe == RAdd(expend, ten_mins)
            s == mjd_to_year_date_time(ps)
            e == mjd_to_year_date_time(pe)
        IN  /\ Len(intervals) <= 2
            /\ (ps[1] = pe[1] =>
                 intervals = << <<s[1], s[2], SubSeq(s[3], 1, 5), SubSeq(e[3], 1, 5)>> >>)
            /\ (ps[1] # pe[1] =>
                 intervals = << <<s[1], s[2], SubSeq(s[3], 1, 5),
                                  <<"2", "3", ":", "5", "9">> >>,
                                <<e[1], e[2], <<"0", "0", ":", "0", "0">>,
                                  SubSeq(e[3], 1, 5)>> >>)

====
